---------------------------- MODULE Spec2Model ----------------------------
(***************************************************************************)
(* A model of the two core subsystems of gbdc:                             *)
(*   - the Weisfeiler-Leman hasher of src/src/identify/ISOHash2.h (the     *)
(*     configurable revision with WLHRuntimeConfig, lines 428-635) over    *)
(*     the size-grouped CNF storage it is instantiated with (the layout    *)
(*     and parser of src/src/util/PointerlessCNFFormula.h), and            *)
(*   - the hierarchical gate recognizer of src/src/gates/GateAnalyzer.h    *)
(*     with the gate store of src/src/gates/GateFormula.h.                 *)
(* Hash values keep a width of HashBits bits; every addition wraps at      *)
(* that width as the unsigned arithmetic of the source does.               *)
(***************************************************************************)
EXTENDS Integers, Sequences, FiniteSets, TLC

(***************************************************************************)
(* Bounds of the model.                                                    *)
(***************************************************************************)
\* width of a hash value (hash_size of the source, reduced)
HashBits == 4
\* largest variable number of a DIMACS input of the hasher
MaxVar == 2
\* largest number of literals of an input clause of the hasher
MaxLen == 2
\* largest number of clauses of a DIMACS input of the hasher
MaxClauses == 2
\* largest refinement depth of a hasher configuration
MaxDepth == 5
\* largest first_progress_check_iteration of a hasher configuration
MaxFirstCheck == 2

HashMod == 2 ^ HashBits
HashMax == HashMod - 1
Hashes == 0 .. HashMax

(***************************************************************************)
(* Literals (SolverTypes.h): index 2v+s, s = 1 for a negative literal.     *)
(***************************************************************************)
Lit(v, neg) == 2 * v + (IF neg THEN 1 ELSE 0)
LitVar(l) == l \div 2
LitSign(l) == (l % 2) = 1
Negate(l) == IF l % 2 = 0 THEN l + 1 ELSE l - 1
Abs(i) == IF i < 0 THEN 0 - i ELSE i
toDimacs(l) == IF LitSign(l) THEN 0 - LitVar(l) ELSE LitVar(l)

(***************************************************************************)
(* Hash primitives of WeisfeilerLemanHasher.                               *)
(***************************************************************************)
\* one absorption round of the scalar hash: a fixed non-linear mixing step
Mix(h, w) == (h * h + 5 * h + 7 * w + 3) % HashMod

\* hash(t): the scalar hash of a flat record of `size` bytes holding `words`
RECURSIVE hashFrom(_, _, _)
hashFrom(h, words, i) ==
    IF i > Len(words) THEN h ELSE hashFrom(Mix(h, words[i]), words, i + 1)

hash(size, words) == hashFrom(size % HashMod, words, 1)

\* a shift-and-add combiner, which weighs the accumulator
combine_shift(acc, in, off) == (2 * acc + in) % HashMod

\* combine(&acc, in) with the template parameter ring_prime_offset = off
combine(acc, in, off) ==
    IF off > 0
    THEN LET ring_size == (HashMod - off) % HashMod
             in2 == in % ring_size
             first_overflow_acc == ring_size - in2
         IN IF acc >= first_overflow_acc
            THEN acc - first_overflow_acc
            ELSE (acc + in2) % HashMod
    ELSE (acc + in) % HashMod

\* combine(&acc, in) of the first revision: addition with end-around carry
combine_carry(acc, in) ==
    (acc + ((in + (IF acc > HashMax - in THEN 1 ELSE 0)) % HashMod)) % HashMod

\* a fold that chains the scalar hash instead of combining
RECURSIVE hash_sum_from_chained(_, _, _, _)
hash_sum_from_chained(h, hs, i, off) ==
    IF i > Len(hs) THEN h
    ELSE hash_sum_from_chained(Mix(h, hs[i]), hs, i + 1, off)

\* hash_sum(c, f): hs is the sequence f(t) for t in c, folded from h = 0
RECURSIVE hash_sum_from(_, _, _, _)
hash_sum_from(h, hs, i, off) ==
    IF i > Len(hs) THEN h
    ELSE hash_sum_from(combine(h, hs[i], off), hs, i + 1, off)

hash_sum(hs, off) == hash_sum_from(0, hs, 1, off)

(***************************************************************************)
(* Size-grouped CNF storage: parsing, renaming, clause iteration.          *)
(***************************************************************************)
MaxOf(S) == CHOOSE x \in S : \A y \in S : y <= x

\* a grouping that puts every clause in front of the earlier ones of its length
RECURSIVE GroupOf_prepend(_, _, _)
GroupOf_prepend(input, len, i) ==
    IF i > Len(input) THEN << >>
    ELSE GroupOf_prepend(input, len, i + 1)
         \o (IF Len(input[i]) = len
             THEN [k \in 1 .. len |-> Lit(Abs(input[i][k]), input[i][k] < 0)]
             ELSE << >>)

\* the literals of the clauses of length len, concatenated in input order
RECURSIVE GroupOf(_, _, _)
GroupOf(input, len, i) ==
    IF i > Len(input) THEN << >>
    ELSE (IF Len(input[i]) = len
          THEN [k \in 1 .. len |-> Lit(Abs(input[i][k]), input[i][k] < 0)]
          ELSE << >>) \o GroupOf(input, len, i + 1)

\* the renaming loop: name[v] is set at the first occurrence of v
RECURSIVE RenameLits(_, _, _, _)
RenameLits(lits, i, name, max) ==
    IF i > Len(lits) THEN [lits |-> lits, name |-> name, max |-> max]
    ELSE LET v == LitVar(lits[i])
             fresh == name[v] = -1
             name2 == IF fresh THEN [name EXCEPT ![v] = max] ELSE name
             max2 == IF fresh THEN max + 1 ELSE max
         IN RenameLits([lits EXCEPT ![i] = Lit(name2[v], LitSign(lits[i]))],
                       i + 1, name2, max2)

RECURSIVE RenameGroups(_, _, _, _)
RenameGroups(cll, len, name, max) ==
    IF len \notin DOMAIN cll THEN [cll |-> cll, variables |-> max]
    ELSE LET r == RenameLits(cll[len], 1, name, max)
         IN RenameGroups([cll EXCEPT ![len] = r.lits], len + 1, r.name, r.max)

\* a storage that keeps the variable numbers of the file (shifted to 0)
normalizeVariableNames_keep(cll, variables) ==
    [cll |-> [len \in DOMAIN cll |->
                [k \in 1 .. Len(cll[len]) |->
                    Lit(LitVar(cll[len][k]) - 1, LitSign(cll[len][k]))]],
     variables |-> variables]

normalizeVariableNames(cll, variables) ==
    RenameGroups(cll, 0, [v \in 0 .. variables |-> -1], 0)

\* input: a sequence of clauses, each a sequence of non-zero DIMACS integers
readDimacsFromFile(input) ==
    LET size == MaxOf({Len(input[i]) : i \in 1 .. Len(input)}) + 1
        cll == [len \in 0 .. size - 1 |-> GroupOf(input, len, 1)]
        variables == MaxOf({0} \cup UNION {{Abs(input[i][k]) : k \in DOMAIN input[i]} :
                                            i \in 1 .. Len(input)})
    IN normalizeVariableNames(cll, variables)

\* clauses(): the iteration of ClauseIt from begin() to end()
RECURSIVE ClausesFrom(_, _, _)
ClausesFrom(cll, length, clause_start) ==
    IF length \notin DOMAIN cll THEN << >>
    ELSE IF clause_start >= Len(cll[length])
         THEN ClausesFrom(cll, length + 1, 0)
         ELSE << SubSeq(cll[length], clause_start + 1, clause_start + length) >>
              \o ClausesFrom(cll, length, clause_start + length)

clauses(cll) == ClausesFrom(cll, 0, 0)


(***************************************************************************)
(* WeisfeilerLemanHasher: one session is a record                          *)
(*   [pc, cfg, cnf, nVars, color_functions, iteration,                     *)
(*    previous_unique_hashes, ret, result]                                 *)
(* color_functions[k][lit] is the Hash of literal lit in ColorFunction k-1;*)
(* ret names the return statement of run() that produced result.           *)
(***************************************************************************)
\* WeisfeilerLemanHasher(filename, cfg): the state after construction
NewHasher(input, c) ==
    LET f == readDimacsFromFile(input)
        colors == [l \in 0 .. 2 * f.variables - 1 |-> 1]
    IN [pc |-> "run", cfg |-> c, cnf |-> clauses(f.cll), nVars |-> f.variables,
        color_functions |-> << colors, colors >>, iteration |-> 0,
        previous_unique_hashes |-> 1, ret |-> "none", result |-> 0]

old_color(h) == (h.iteration % 2) + 1
new_color(h) == ((h.iteration + 1) % 2) + 1

in_optimized_iteration(h) ==
    h.iteration = 0 /\ h.cfg.optimize_first_iteration

\* LitColors::cross_reference on the pair of the variable of literal l
LitColors_cross_reference(colors, l) ==
    IF l % 2 = 0 THEN hash(16, << colors[l], colors[l + 1] >>)
                 ELSE hash(16, << colors[l], colors[l - 1] >>)

\* a variable hash that does not order the pair before hashing
LitColors_variable_hash_unsorted(colors, v) ==
    hash(16, << colors[2 * v], colors[2 * v + 1] >>)

\* LitColors::variable_hash of variable v
LitColors_variable_hash(colors, v) ==
    LET p == colors[2 * v]
        n == colors[2 * v + 1]
    IN IF n > p THEN hash(16, << n, p >>) ELSE hash(16, << p, n >>)

cross_reference(h) ==
    IF ~h.cfg.cross_reference_literals \/ in_optimized_iteration(h) THEN h
    ELSE LET colors == h.color_functions[old_color(h)]
         IN [h EXCEPT !.color_functions[old_color(h)] =
                [l \in DOMAIN colors |-> LitColors_cross_reference(colors, l)]]

clause_hash(h, cl) ==
    LET colors == h.color_functions[old_color(h)]
        sum == hash_sum([i \in 1 .. Len(cl) |-> colors[cl[i]]],
                        h.cfg.ring_prime_offset)
    IN IF h.cfg.rehash_clauses THEN hash(8, << sum >>) ELSE sum

\* the inner loop of iteration_step: combine clh into the color of each literal
RECURSIVE CombineLits(_, _, _, _, _)
CombineLits(colors, cl, i, clh, off) ==
    IF i > Len(cl) THEN colors
    ELSE CombineLits([colors EXCEPT ![cl[i]] = combine(colors[cl[i]], clh, off)],
                     cl, i + 1, clh, off)

\* the outer loop of iteration_step over cnf.clauses()
RECURSIVE CombineClauses(_, _, _)
CombineClauses(h, colors, j) ==
    IF j > Len(h.cnf) THEN colors
    ELSE LET cl == h.cnf[j]
             clh == IF ~in_optimized_iteration(h) THEN clause_hash(h, cl)
                    ELSE hash(4, << Len(cl) >>)
         IN CombineClauses(h, CombineLits(colors, cl, 1, clh,
                                          h.cfg.ring_prime_offset), j + 1)

iteration_step(h) ==
    LET h1 == cross_reference(h)
        colors == CombineClauses(h1, h1.color_functions[new_color(h1)], 1)
    IN [h1 EXCEPT !.color_functions[new_color(h1)] = colors,
                  !.iteration = h1.iteration + 1]

variable_hash(h) ==
    LET colors == h.color_functions[old_color(h)]
    IN IF h.cfg.cross_reference_literals
       THEN hash_sum([i \in 1 .. h.nVars |-> LitColors_variable_hash(colors, i - 1)],
                     h.cfg.ring_prime_offset)
       ELSE hash_sum([i \in 1 .. 2 * h.nVars |-> colors[i - 1]],
                     h.cfg.ring_prime_offset)

\* cnf_hash(): the cross-referenced session and the hash it returns
cnf_hash(h) ==
    LET h1 == cross_reference(h)
    IN [h |-> h1,
        hash |-> hash_sum([j \in 1 .. Len(h1.cnf) |-> clause_hash(h1, h1.cnf[j])],
                          h1.cfg.ring_prime_offset)]

\* a progress check that returns on equality only and records any other count
check_progress_on_equality(h) ==
    IF h.iteration < h.cfg.first_progress_check_iteration
    THEN [returned |-> FALSE, vh |-> 0, unique |-> 0,
          previous_unique_hashes |-> h.previous_unique_hashes]
    ELSE LET colors == h.color_functions[old_color(h)]
             vhs == [i \in 1 .. h.nVars |-> LitColors_variable_hash(colors, i - 1)]
             unique_hashes == {vhs[i] : i \in 1 .. h.nVars}
         IN [returned |-> Cardinality(unique_hashes) = h.previous_unique_hashes,
             vh |-> hash_sum(vhs, h.cfg.ring_prime_offset),
             unique |-> Cardinality(unique_hashes),
             previous_unique_hashes |-> Cardinality(unique_hashes)]

\* check_progress(): [returned, vh, previous_unique_hashes]
check_progress(h) ==
    IF h.iteration < h.cfg.first_progress_check_iteration
    THEN [returned |-> FALSE, vh |-> 0, unique |-> 0,
          previous_unique_hashes |-> h.previous_unique_hashes]
    ELSE LET colors == h.color_functions[old_color(h)]
             vhs == [i \in 1 .. h.nVars |-> LitColors_variable_hash(colors, i - 1)]
             vh == hash_sum(vhs, h.cfg.ring_prime_offset)
             unique_hashes == {vhs[i] : i \in 1 .. h.nVars}
         IN IF Cardinality(unique_hashes) <= h.previous_unique_hashes
            THEN [returned |-> TRUE, vh |-> vh,
                  unique |-> Cardinality(unique_hashes),
                  previous_unique_hashes |-> h.previous_unique_hashes]
            ELSE [returned |-> FALSE, vh |-> vh,
                  unique |-> Cardinality(unique_hashes),
                  previous_unique_hashes |-> Cardinality(unique_hashes)]

\* a turn of the loop that takes two iteration steps
run_loop_twice(h) ==
    LET r == check_progress(h)
    IN IF r.returned
       THEN [h EXCEPT !.pc = "done", !.ret = "progress", !.result = r.vh]
       ELSE iteration_step(iteration_step(
                [h EXCEPT !.previous_unique_hashes = r.previous_unique_hashes]))

\* one turn of the while loop of run()
run_loop(h) ==
    LET r == check_progress(h)
    IN IF r.returned
       THEN [h EXCEPT !.pc = "done", !.ret = "progress", !.result = r.vh]
       ELSE iteration_step([h EXCEPT !.previous_unique_hashes =
                                         r.previous_unique_hashes])

\* a return statement with the parities exchanged
run_return_swapped(h) ==
    IF h.cfg.depth % 2 = 1
    THEN [h EXCEPT !.pc = "done", !.ret = "variable_hash",
                   !.result = variable_hash(h)]
    ELSE LET r == cnf_hash(h)
         IN [r.h EXCEPT !.pc = "done", !.ret = "cnf_hash", !.result = r.hash]

\* the return statement of run() after the loop
run_return(h) ==
    IF h.cfg.depth % 2 = 0
    THEN [h EXCEPT !.pc = "done", !.ret = "variable_hash",
                   !.result = variable_hash(h)]
    ELSE LET r == cnf_hash(h)
         IN [r.h EXCEPT !.pc = "done", !.ret = "cnf_hash", !.result = r.hash]


(***************************************************************************)
(* Gate recognition.  A problem is a sequence of stored clauses, each the  *)
(* sorted duplicate-free tautology-free sequence of literals readClause    *)
(* keeps; a clause pointer is the position of the clause in the problem.   *)
(***************************************************************************)
MinOf(S) == CHOOSE x \in S : \A y \in S : x <= y

RECURSIVE SortedSeq(_)
SortedSeq(S) == IF S = {} THEN << >> ELSE << MinOf(S) >> \o SortedSeq(S \ {MinOf(S)})

Range(sq) == {sq[i] : i \in 1 .. Len(sq)}

lit_Undef == Lit(0, TRUE)

\* OccurrenceList: index is the set of clauses still linked; occ(l) in insertion order
occ(problem, index, l) ==
    SortedSeq({c \in index : l \in Range(problem[c])})

\* OccurrenceList::isBlockedSet(o)
isBlockedSet(problem, index, o) ==
    \A c \in Range(occ(problem, index, Negate(o))) :
       \A d \in Range(occ(problem, index, o)) :
          \E l \in Range(problem[c]) :
             LitVar(l) # LitVar(o) /\ Negate(l) \in Range(problem[d])

\* OccurrenceList::remove(v)
remove(problem, index, v) ==
    {c \in index : \A l \in Range(problem[c]) : LitVar(l) # v}

\* OccurrenceList::estimateRoots(): the selections it may return; the selected
\* clauses are unlinked from the index
estimateRoots(problem, index) == {SortedSeq(R) : R \in SUBSET index}

\* GateFormula(nVars)
NewGate == [out |-> lit_Undef, fwd |-> << >>, bwd |-> << >>, notMono |-> FALSE,
            inp |-> << >>]

NewGateFormula(nVars) ==
    [roots |-> << >>,
     inputs |-> [l \in 0 .. 2 * nVars + 1 |-> FALSE],
     gates |-> [v \in 0 .. nVars + 1 |-> NewGate],
     remainder |-> << >>]

setUsedAsInput(gf, lit) == [gf EXCEPT !.inputs[lit] = TRUE]

isUsedAsInput(gf, lit) == gf.inputs[lit]

isNestedMonotonic(gf, lit) ==
    ~(isUsedAsInput(gf, lit) /\ isUsedAsInput(gf, Negate(lit)))

\* the literals of the clauses of f other than skip, in clause order
RECURSIVE LitsOf(_, _, _, _)
LitsOf(problem, f, i, skip) ==
    IF i > Len(f) THEN << >>
    ELSE SelectSeq(problem[f[i]], LAMBDA l : l # skip)
         \o LitsOf(problem, f, i + 1, skip)

\* a marking loop that marks the inputs only in the polarity they occur in
RECURSIVE MarkInputs_positive(_, _, _, _)
MarkInputs_positive(gf, inp, i, notMono) ==
    IF i > Len(inp) THEN gf
    ELSE MarkInputs_positive(setUsedAsInput(gf, inp[i]), inp, i + 1, notMono)

\* the marking loop of addGate over gate.inp
RECURSIVE MarkInputs(_, _, _, _)
MarkInputs(gf, inp, i, notMono) ==
    IF i > Len(inp) THEN gf
    ELSE LET g1 == setUsedAsInput(gf, inp[i])
             g2 == IF notMono THEN setUsedAsInput(g1, Negate(inp[i])) ELSE g1
         IN MarkInputs(g2, inp, i + 1, notMono)

\* an addGate that records the forward clauses only
addGate_fwd_only(problem, gf, o, fwd, bwd) ==
    LET gate == gf.gates[LitVar(o)]
        notMono == ~isNestedMonotonic(gf, o)
        inp == SortedSeq(Range(gate.inp \o LitsOf(problem, fwd, 1, Negate(o))))
        gate2 == [out |-> o, fwd |-> gate.fwd \o fwd, bwd |-> gate.bwd,
                  notMono |-> notMono, inp |-> inp]
    IN MarkInputs([gf EXCEPT !.gates[LitVar(o)] = gate2], inp, 1, notMono)

\* an addGate that records every gate as monotonic
addGate_monotonic(problem, gf, o, fwd, bwd) ==
    LET gate == gf.gates[LitVar(o)]
        pushed == gate.inp \o LitsOf(problem, fwd, 1, Negate(o))
        inp == SortedSeq(Range(pushed))
        gate2 == [out |-> o, fwd |-> gate.fwd \o fwd, bwd |-> gate.bwd \o bwd,
                  notMono |-> FALSE, inp |-> inp]
    IN MarkInputs([gf EXCEPT !.gates[LitVar(o)] = gate2], inp, 1, FALSE)

addGate(problem, gf, o, fwd, bwd) ==
    LET gate == gf.gates[LitVar(o)]
        notMono == ~isNestedMonotonic(gf, o)
        pushed == gate.inp \o LitsOf(problem, fwd, 1, Negate(o))
        inp == SortedSeq(Range(pushed))
        gate2 == [out |-> o, fwd |-> gate.fwd \o fwd, bwd |-> gate.bwd \o bwd,
                  notMono |-> notMono, inp |-> inp]
    IN MarkInputs([gf EXCEPT !.gates[LitVar(o)] = gate2], inp, 1, notMono)

fixedClauseSize(problem, f, n) ==
    \A i \in 1 .. Len(f) : Len(problem[f[i]]) = n

fPattern(problem, o, fwd, bwd) ==
    LET fwd_inp == {LitVar(l) : l \in Range(LitsOf(problem, fwd, 1, Negate(o)))}
        bwd_inp == {LitVar(l) : l \in Range(LitsOf(problem, bwd, 1, o))}
        fwd_lits == Range(LitsOf(problem, fwd, 1, Negate(o)))
    IN IF fwd_inp # bwd_inp THEN FALSE
       ELSE IF Len(fwd) = 1 /\ Len(bwd) = 1 /\ Len(problem[fwd[1]]) = 2
               /\ Len(problem[bwd[1]]) = 2 THEN TRUE
       ELSE IF Len(fwd) = 1 /\ fixedClauseSize(problem, bwd, 2) THEN TRUE
       ELSE IF Len(bwd) = 1 /\ fixedClauseSize(problem, fwd, 2) THEN TRUE
       ELSE IF Len(fwd) = Len(bwd)
               /\ 2 * Len(fwd) = 2 ^ (Cardinality(fwd_inp) \div 2)
            THEN 2 * Cardinality(fwd_inp) = Cardinality(fwd_lits)
       ELSE FALSE

(***************************************************************************)
(* The incremental SAT oracle (IPASIR): the clauses added so far and the   *)
(* literals of the clause that is not yet terminated.                      *)
(***************************************************************************)
NewSolver == [clauses |-> {}, open |-> {}]

ipasir_add(S, lit) ==
    IF lit = 0 THEN [clauses |-> S.clauses \cup {S.open}, open |-> {}]
    ELSE [S EXCEPT !.open = @ \cup {lit}]

RECURSIVE ipasir_add_all(_, _, _)
ipasir_add_all(S, lits, i) ==
    IF i > Len(lits) THEN S
    ELSE ipasir_add_all(ipasir_add(S, lits[i]), lits, i + 1)

\* ipasir_solve under one assumption: 10 = SAT, 20 = UNSAT
ipasir_solve(S, assumption, nVars) ==
    IF \E T \in SUBSET (1 .. nVars) :
          LET holds(d) == IF d < 0 THEN (0 - d) \notin T ELSE d \in T
          IN /\ holds(assumption)
             /\ \A c \in S.clauses : \E d \in c : holds(d)
    THEN 10 ELSE 20

\* std::sort of a clause by literal index
RECURSIVE InsertSorted(_, _)
InsertSorted(sq, x) ==
    IF sq = << >> THEN << x >>
    ELSE IF x < sq[1] THEN << x >> \o sq
    ELSE << sq[1] >> \o InsertSorted(Tail(sq), x)

RECURSIVE std_sort(_)
std_sort(sq) ==
    IF sq = << >> THEN << >> ELSE InsertSorted(std_sort(Tail(sq)), sq[1])

\* the loop of readClause over the sorted clause with its iterators it and jt
\* (positions from 1) and its counter dup, and the resize after the loop
RECURSIVE RemoveRedundant(_, _, _, _)
RemoveRedundant(clause, it, jt, dup) ==
    IF jt > Len(clause)
    THEN [tautology |-> FALSE, clause |-> SubSeq(clause, 1, Len(clause) - dup)]
    ELSE IF clause[it] # clause[jt]
         THEN IF LitVar(clause[it]) = LitVar(clause[jt])
              THEN [tautology |-> TRUE, clause |-> clause]
              ELSE RemoveRedundant([clause EXCEPT ![it + 1] = clause[jt]],
                                   it + 1, jt + 1, dup)
         ELSE RemoveRedundant(clause, it, jt + 1, dup + 1)

\* a readClause that does not sort before it removes redundant literals
readClause_unsorted(lits) ==
    IF Len(lits) > 0
    THEN LET r == RemoveRedundant(lits, 1, 2, 0)
         IN IF r.tautology THEN [stored |-> FALSE, clause |-> << >>]
            ELSE [stored |-> TRUE, clause |-> r.clause]
    ELSE [stored |-> TRUE, clause |-> << >>]

\* CNFFormula::readClause: whether the clause is stored, and the stored clause
readClause(lits) ==
    IF Len(lits) > 0
    THEN LET r == RemoveRedundant(std_sort(lits), 1, 2, 0)
         IN IF r.tautology THEN [stored |-> FALSE, clause |-> << >>]
            ELSE [stored |-> TRUE, clause |-> r.clause]
    ELSE [stored |-> TRUE, clause |-> << >>]

\* readClause on a formula F = [formula, variables]: the formula it leaves
readClauseInto(F, lits) ==
    LET r == readClause(lits)
    IN IF ~r.stored THEN F
       ELSE [formula |-> Append(F.formula, r.clause),
             variables |-> IF Len(r.clause) > 0
                           THEN MaxOf({F.variables, LitVar(r.clause[Len(r.clause)])})
                           ELSE F.variables]

\* loops of fSemantic that add the literals of a clause without the 0 that
\* ends it
RECURSIVE AddConstraint_unterminated(_, _, _, _, _)
AddConstraint_unterminated(problem, S, f, i, o) ==
    IF i > Len(f) THEN S
    ELSE LET clause == [k \in 1 .. Len(problem[f[i]]) |->
                          IF LitVar(problem[f[i]][k]) # LitVar(o)
                          THEN problem[f[i]][k] ELSE Lit(LitVar(o), FALSE)]
             r == readClause(clause)
             dimacs == [k \in 1 .. Len(r.clause) |-> toDimacs(r.clause[k])]
             S1 == IF ~r.stored THEN S
                   ELSE ipasir_add_all(S, dimacs, 1)
         IN AddConstraint_unterminated(problem, S1, f, i + 1, o)

\* the loops of fSemantic that build `constraint` and add it to the solver
RECURSIVE AddConstraint(_, _, _, _, _)
AddConstraint(problem, S, f, i, o) ==
    IF i > Len(f) THEN S
    ELSE LET clause == [k \in 1 .. Len(problem[f[i]]) |->
                          IF LitVar(problem[f[i]][k]) # LitVar(o)
                          THEN problem[f[i]][k] ELSE Lit(LitVar(o), FALSE)]
             r == readClause(clause)
             dimacs == [k \in 1 .. Len(r.clause) |-> toDimacs(r.clause[k])]
             S1 == IF ~r.stored THEN S
                   ELSE ipasir_add(ipasir_add_all(S, dimacs, 1), 0)
         IN AddConstraint(problem, S1, f, i + 1, o)

\* fSemantic: [result, solver]
fSemantic(problem, S, o, fwd, bwd, nVars) ==
    LET S1 == AddConstraint(problem, S, fwd \o bwd, 1, o)
        result == ipasir_solve(S1, toDimacs(Lit(LitVar(o), TRUE)), nVars)
        S2 == ipasir_add(S1, toDimacs(Lit(LitVar(o), FALSE)))
    IN [result |-> (result = 20), solver |-> S2]

(***************************************************************************)
(* GateAnalyzer.                                                           *)
(***************************************************************************)
\* an isGate that tests the occurrences of out instead of those of ~out
isGate_occ_out(problem, gf, index, S, out, pat, sem, nVars) ==
    LET fwd == occ(problem, index, Negate(out))
        bwd == occ(problem, index, out)
        entered == Len(bwd) > 0 /\ isBlockedSet(problem, index, out)
        monotonic == isNestedMonotonic(gf, out)
        pattern == entered /\ ~monotonic /\ pat /\ fPattern(problem, out, fwd, bwd)
        probed == entered /\ ~monotonic /\ ~pattern /\ sem
        probe == fSemantic(problem, S, out, fwd, bwd, nVars)
        ok == entered /\ (monotonic \/ pattern \/ (probed /\ probe.result))
    IN [ok |-> ok,
        gate_formula |-> IF ok THEN addGate(problem, gf, out, fwd, bwd) ELSE gf,
        index |-> IF ok THEN remove(problem, index, LitVar(out)) ELSE index,
        solver |-> IF probed THEN probe.solver ELSE S,
        fwd |-> fwd, bwd |-> bwd, monotonic |-> entered /\ monotonic,
        pattern |-> pattern, probed |-> probed]

\* an isGate that leaves the clauses of the output variable in the index
isGate_keep_index(problem, gf, index, S, out, pat, sem, nVars) ==
    LET fwd == occ(problem, index, Negate(out))
        bwd == occ(problem, index, out)
        entered == Len(fwd) > 0 /\ isBlockedSet(problem, index, out)
        monotonic == isNestedMonotonic(gf, out)
        pattern == entered /\ ~monotonic /\ pat /\ fPattern(problem, out, fwd, bwd)
        probed == entered /\ ~monotonic /\ ~pattern /\ sem
        probe == fSemantic(problem, S, out, fwd, bwd, nVars)
        ok == entered /\ (monotonic \/ pattern \/ (probed /\ probe.result))
    IN [ok |-> ok,
        gate_formula |-> IF ok THEN addGate(problem, gf, out, fwd, bwd) ELSE gf,
        index |-> index,
        solver |-> IF probed THEN probe.solver ELSE S,
        fwd |-> fwd, bwd |-> bwd, monotonic |-> entered /\ monotonic,
        pattern |-> pattern, probed |-> probed]

\* isGate(out, pat, sem): the value returned (ok), the members it leaves
\* behind, and its locals fwd, bwd and monotonic; pattern and probed tell
\* which operands of the short-circuit disjunction were evaluated to true
isGate(problem, gf, index, S, out, pat, sem, nVars) ==
    LET fwd == occ(problem, index, Negate(out))
        bwd == occ(problem, index, out)
        entered == Len(fwd) > 0 /\ isBlockedSet(problem, index, out)
        monotonic == isNestedMonotonic(gf, out)
        pattern == entered /\ ~monotonic /\ pat /\ fPattern(problem, out, fwd, bwd)
        probed == entered /\ ~monotonic /\ ~pattern /\ sem
        probe == fSemantic(problem, S, out, fwd, bwd, nVars)
        ok == entered /\ (monotonic \/ pattern \/ (probed /\ probe.result))
    IN [ok |-> ok,
        gate_formula |-> IF ok THEN addGate(problem, gf, out, fwd, bwd) ELSE gf,
        index |-> IF ok THEN remove(problem, index, LitVar(out)) ELSE index,
        solver |-> IF probed THEN probe.solver ELSE S,
        fwd |-> fwd, bwd |-> bwd, monotonic |-> entered /\ monotonic,
        pattern |-> pattern, probed |-> probed]

\* std::unique: drops every element equal to its predecessor
unique(sq) ==
    SelectSeq([i \in 1 .. Len(sq) |-> << i, sq[i] >>],
              LAMBDA e : e[1] = 1 \/ sq[e[1] - 1] # e[2])

Unique(sq) == [i \in 1 .. Len(unique(sq)) |-> unique(sq)[i][2]]

\* std::inplace_merge of two sorted ranges
RECURSIVE inplace_merge(_, _)
inplace_merge(a, b) ==
    IF a = << >> THEN b
    ELSE IF b = << >> THEN a
    ELSE IF b[1] < a[1] THEN << b[1] >> \o inplace_merge(a, Tail(b))
    ELSE << a[1] >> \o inplace_merge(Tail(a), b)

\* the first loop of a pass of analyze(): roots, candidates, used-as-input marks
RECURSIVE TakeRoots(_, _, _, _)
TakeRoots(problem, gf, root_clauses, i) ==
    IF i > Len(root_clauses) THEN [gate_formula |-> gf, candidates |-> << >>]
    ELSE LET clause == problem[root_clauses[i]]
             g1 == [gf EXCEPT !.roots = Append(@, root_clauses[i])]
             g2 == MarkInputs(g1, clause, 1, FALSE)
             rest == TakeRoots(problem, g2, root_clauses, i + 1)
         IN [gate_formula |-> rest.gate_formula,
             candidates |-> clause \o rest.candidates]

\* the remainder of analyze(): the clauses still linked, each once
Remainder(problem, index, nVars) ==
    SortedSeq(UNION {Range(occ(problem, index, lit)) : lit \in 0 .. 2 * nVars + 1})

(***************************************************************************)
(* Inputs of the hasher and the input transformations of the invariance    *)
(* properties.                                                             *)
(***************************************************************************)
DimacsLits == (0 - MaxVar .. MaxVar) \ {0}
\* the clause lines of the generated inputs: no variable twice in a line
InputClauses ==
    {cl \in UNION {[1 .. n -> DimacsLits] : n \in 0 .. MaxLen} :
        \A i, k \in 1 .. Len(cl) : i # k => Abs(cl[i]) # Abs(cl[k])}
\* a DIMACS input holds at least one clause line
Inputs == UNION {[1 .. n -> InputClauses] : n \in 1 .. MaxClauses}

Configs == [depth : 0 .. MaxDepth,
            cross_reference_literals : BOOLEAN,
            rehash_clauses : BOOLEAN,
            optimize_first_iteration : BOOLEAN,
            first_progress_check_iteration : 1 .. MaxFirstCheck,
            ring_prime_offset : {0}]

Reverse(sq) == [k \in 1 .. Len(sq) |-> sq[Len(sq) + 1 - k]]

Transforms(inp) ==
         [kind : {"rename"}, perm : Permutations(1 .. MaxVar)]
    \cup [kind : {"reorder"}, perm : Permutations(1 .. Len(inp)),
          rev : SUBSET (1 .. Len(inp))]
    \cup [kind : {"flip"}, vars : SUBSET (1 .. MaxVar)]
    \cup [kind : {"tautology"}, var : 1 .. MaxVar, pos : 0 .. Len(inp)]
    \cup {t \in [kind : {"duplicate"}, clause : 1 .. Len(inp), lit : 1 .. MaxLen] :
            t.lit <= Len(inp[t.clause])}

ApplyTransform(t, inp) ==
    CASE t.kind = "rename" ->
           [i \in 1 .. Len(inp) |-> [k \in 1 .. Len(inp[i]) |->
               IF inp[i][k] < 0 THEN 0 - t.perm[Abs(inp[i][k])]
                                ELSE t.perm[inp[i][k]]]]
      [] t.kind = "reorder" ->
           [i \in 1 .. Len(inp) |->
               IF t.perm[i] \in t.rev THEN Reverse(inp[t.perm[i]])
                                      ELSE inp[t.perm[i]]]
      [] t.kind = "flip" ->
           [i \in 1 .. Len(inp) |-> [k \in 1 .. Len(inp[i]) |->
               IF Abs(inp[i][k]) \in t.vars THEN 0 - inp[i][k] ELSE inp[i][k]]]
      [] t.kind = "tautology" ->
           SubSeq(inp, 1, t.pos) \o << << t.var, 0 - t.var >> >>
               \o SubSeq(inp, t.pos + 1, Len(inp))
      [] t.kind = "duplicate" ->
           [inp EXCEPT ![t.clause] = Append(@, @[t.lit])]

(***************************************************************************)
(* Inputs of the gate analyzer.                                            *)
(***************************************************************************)
\* largest variable of a generated problem of the gate analyzer
NVarsG == 2
\* largest number of clauses of a generated problem of the gate analyzer
MaxGateClauses == 4
\* largest number of root selections (tries_) of an analyzer configuration
MaxPasses == 2

\* the clauses readClause stores over the variables 1 .. n: no variable twice
StoredClauses(n) ==
    {S \in SUBSET (2 .. 2 * n + 1) : S # {} /\ \A l \in S : Negate(l) \notin S}

\* a set of clauses as a problem: a sequence of sorted literal sequences
RECURSIVE AsProblem(_)
AsProblem(F) ==
    IF F = {} THEN << >>
    ELSE LET c == CHOOSE c \in F : TRUE
         IN << SortedSeq(c) >> \o AsProblem(F \ {c})

\* an or-gate and an and-gate over three variables below the roots (1), (-1)
OrGateProblem ==
    << << Lit(1, FALSE) >>, << Lit(1, TRUE) >>,
       << Lit(1, TRUE), Lit(2, FALSE), Lit(3, FALSE) >>,
       << Lit(1, FALSE), Lit(2, TRUE) >>, << Lit(1, FALSE), Lit(3, TRUE) >> >>

AndGateProblem ==
    << << Lit(1, FALSE) >>, << Lit(1, TRUE) >>,
       << Lit(1, FALSE), Lit(2, TRUE), Lit(3, TRUE) >>,
       << Lit(1, TRUE), Lit(2, FALSE) >>, << Lit(1, TRUE), Lit(3, FALSE) >> >>

Problems ==
    {AsProblem(F) : F \in {G \in SUBSET StoredClauses(NVarsG) :
                              Cardinality(G) \in 1 .. MaxGateClauses}}
    \cup {OrGateProblem, AndGateProblem}

GateConfigs == [patterns : BOOLEAN, semantic : BOOLEAN, max : 1 .. MaxPasses]

\* CNFFormula::nVars(): the largest variable read
nVars(F) ==
    MaxOf({0} \cup UNION {{LitVar(l) : l \in Range(F[c])} : c \in 1 .. Len(F)})

(***************************************************************************)
(* State.                                                                  *)
(*   input, twin, wl   two hasher sessions: wl[1] on input, wl[2] on the   *)
(*                     transformed input ApplyTransform(twin, input)       *)
(*   cmb               a session that applies the combiners to drawn values*)
(*   problem .. lastCall   one GateAnalyzer: its members problem,          *)
(*                     patterns/semantic/max (gcfg), index, gate_formula,  *)
(*                     S (solver), the position and locals of analyze()    *)
(*                     and gate_recognition() (an), and the arguments,     *)
(*                     locals and result of the last isGate call           *)
(*   gfCall            the operation called on the gate formula after the  *)
(*                     analysis (getPrunedProblem or normalizeRoots), its  *)
(*                     argument and what it produced                       *)
(*   cnf_formula       one CNFFormula that clauses are read into: its      *)
(*                     members formula and variables, the clause last      *)
(*                     passed to readClause, and the number of calls       *)
(***************************************************************************)
VARIABLES input, twin, wl, cmb,
          problem, gcfg, index, gate_formula, solver, an, lastCall,
          gfCall, cnf_formula

varsWL == << input, twin, wl >>
varsGate == << problem, gcfg, index, gate_formula, solver, an, lastCall,
              gfCall >>
vars == << input, twin, wl, cmb,
           problem, gcfg, index, gate_formula, solver, an, lastCall,
           gfCall, cnf_formula >>

IdleHasher == [pc |-> "idle"]
NoTwin == [kind |-> "none"]
IdleCombine == [pc |-> "idle"]
NoCall == [out |-> lit_Undef, ok |-> FALSE, fwd |-> << >>, bwd |-> << >>,
           monotonic |-> FALSE, pattern |-> FALSE, probed |-> FALSE]
IdleAnalyzer == [pc |-> "idle", count |-> 0, root_clauses |-> << >>,
                 frontier |-> << >>, candidates |-> << >>, ci |-> 0]
NoOperation == [op |-> "none"]

\* no hasher session exists
WLIdle ==
    /\ input = << >>
    /\ twin = NoTwin
    /\ wl = << IdleHasher, IdleHasher >>

\* no combiner session exists
CombineIdle == cmb = IdleCombine

\* no CNFFormula is being read
NoFormula == [formula |-> << >>, variables |-> 0, last |-> << >>, calls |-> 0]
FormulaIdle == cnf_formula = NoFormula

\* no GateAnalyzer exists
GateIdle ==
    /\ problem = << >>
    /\ gcfg = [patterns |-> FALSE, semantic |-> FALSE, max |-> 0]
    /\ index = {}
    /\ gate_formula = NewGateFormula(0)
    /\ solver = NewSolver
    /\ an = IdleAnalyzer
    /\ lastCall = NoCall
    /\ gfCall = NoOperation

(***************************************************************************)
(* The hasher as a state machine.                                          *)
(***************************************************************************)
\* two sessions are constructed on an input and its transform of one kind
InitWL(kinds) ==
    /\ input \in Inputs
    /\ twin \in {t \in Transforms(input) : t.kind \in kinds}
    /\ \E c \in Configs :
          wl = << NewHasher(input, c), NewHasher(ApplyTransform(twin, input), c) >>
    /\ CombineIdle
    /\ FormulaIdle
    /\ GateIdle

\* the host is single-threaded: the second session runs after the first
Scheduled(s) == s = 1 \/ wl[1].pc = "done"

\* one turn of the while loop of run() in session s
RunLoop(s) ==
    /\ Scheduled(s)
    /\ wl[s].pc = "run"
    /\ wl[s].iteration < wl[s].cfg.depth \div 2
    /\ wl' = [wl EXCEPT ![s] = run_loop(wl[s])]
    /\ UNCHANGED << input, twin, cmb, cnf_formula >>
    /\ UNCHANGED varsGate

\* the loop of run() is left and the final hash returned in session s
RunReturn(s) ==
    /\ Scheduled(s)
    /\ wl[s].pc = "run"
    /\ ~(wl[s].iteration < wl[s].cfg.depth \div 2)
    /\ wl' = [wl EXCEPT ![s] = run_return(wl[s])]
    /\ UNCHANGED << input, twin, cmb, cnf_formula >>
    /\ UNCHANGED varsGate

NextWL == \E s \in 1 .. 2 : RunLoop(s) \/ RunReturn(s)

SpecRename == InitWL({"rename"}) /\ [][NextWL]_vars
SpecOrder == InitWL({"reorder"}) /\ [][NextWL]_vars
SpecFlip == InitWL({"flip"}) /\ [][NextWL]_vars
SpecIdem == InitWL({"tautology", "duplicate"}) /\ [][NextWL]_vars

(***************************************************************************)
(* The gate analyzer as a state machine: analyze() and gate_recognition()  *)
(* step by step, one isGate call per step.                                 *)
(***************************************************************************)
\* GateAnalyzer(problem, patterns, semantic, tries) has been constructed
InitGate ==
    /\ problem \in Problems
    /\ gcfg \in GateConfigs
    /\ index = 1 .. Len(problem)
    /\ gate_formula = NewGateFormula(nVars(problem))
    /\ solver = NewSolver
    /\ an = [IdleAnalyzer EXCEPT !.pc = "analyze"]
    /\ lastCall = NoCall
    /\ gfCall = NoOperation
    /\ WLIdle
    /\ CombineIdle
    /\ FormulaIdle

\* analyze(): the first root selection
AnalyzeBegin ==
    /\ an.pc = "analyze"
    /\ \E R \in estimateRoots(problem, index) :
          /\ an' = [an EXCEPT !.pc = "pass", !.count = 0, !.root_clauses = R]
          /\ index' = index \ Range(R)
    /\ UNCHANGED << problem, gcfg, gate_formula, solver, lastCall, cmb,
                    cnf_formula, gfCall >>
    /\ UNCHANGED varsWL

\* the body of the for loop up to the call of gate_recognition(candidates)
PassBegin ==
    /\ an.pc = "pass"
    /\ an.count < gcfg.max /\ an.root_clauses # << >>
    /\ LET t == TakeRoots(problem, gate_formula, an.root_clauses, 1)
       IN /\ gate_formula' = t.gate_formula
          /\ an' = [an EXCEPT !.pc = "level", !.frontier = t.candidates,
                              !.candidates = << >>]
    /\ UNCHANGED << problem, gcfg, index, solver, lastCall, cmb,
                    cnf_formula, gfCall >>
    /\ UNCHANGED varsWL

\* a level that leaves the frontier as it is instead of swapping it out
LevelBegin_keep_frontier ==
    /\ an.pc = "level"
    /\ an.frontier # << >>
    /\ an' = [an EXCEPT !.pc = "candidate", !.candidates = Unique(an.frontier),
                        !.ci = 1]
    /\ UNCHANGED << problem, gcfg, index, gate_formula, solver, lastCall, cmb,
                    cnf_formula, gfCall >>
    /\ UNCHANGED varsWL

\* gate_recognition: a level of the search starts with swap and unique
LevelBegin ==
    /\ an.pc = "level"
    /\ an.frontier # << >>
    /\ an' = [an EXCEPT !.pc = "candidate", !.candidates = Unique(an.frontier),
                        !.frontier = << >>, !.ci = 1]
    /\ UNCHANGED << problem, gcfg, index, gate_formula, solver, lastCall, cmb,
                    cnf_formula, gfCall >>
    /\ UNCHANGED varsWL

\* gate_recognition: isGate on the next candidate, its inputs join the frontier
TryCandidate ==
    /\ an.pc = "candidate"
    /\ an.ci <= Len(an.candidates)
    /\ LET candidate == an.candidates[an.ci]
           r == isGate(problem, gate_formula, index, solver, candidate,
                       gcfg.patterns, gcfg.semantic, nVars(problem))
       IN /\ gate_formula' = r.gate_formula
          /\ index' = r.index
          /\ solver' = r.solver
          /\ lastCall' = [out |-> candidate, ok |-> r.ok, fwd |-> r.fwd,
                          bwd |-> r.bwd, monotonic |-> r.monotonic,
                          pattern |-> r.pattern, probed |-> r.probed]
          /\ an' = [an EXCEPT !.ci = an.ci + 1,
                              !.frontier =
                                 IF r.ok
                                 THEN inplace_merge(an.frontier,
                                          r.gate_formula.gates[LitVar(candidate)].inp)
                                 ELSE an.frontier]
    /\ UNCHANGED << problem, gcfg, cmb, cnf_formula, gfCall >>
    /\ UNCHANGED varsWL

\* gate_recognition: all candidates of the level are visited
LevelEnd ==
    /\ an.pc = "candidate"
    /\ an.ci > Len(an.candidates)
    /\ an' = [an EXCEPT !.pc = "level", !.candidates = << >>, !.ci = 0]
    /\ UNCHANGED << problem, gcfg, index, gate_formula, solver, lastCall, cmb,
                    cnf_formula, gfCall >>
    /\ UNCHANGED varsWL

\* gate_recognition returns; the next root selection and count++
PassEnd ==
    /\ an.pc = "level"
    /\ an.frontier = << >>
    /\ \E R \in estimateRoots(problem, index) :
          /\ an' = [an EXCEPT !.pc = "pass", !.count = an.count + 1,
                              !.root_clauses = R]
          /\ index' = index \ Range(R)
    /\ UNCHANGED << problem, gcfg, gate_formula, solver, lastCall, cmb,
                    cnf_formula, gfCall >>
    /\ UNCHANGED varsWL

\* the for loop is left: the clauses still linked become the remainder
Finish ==
    /\ an.pc = "pass"
    /\ ~(an.count < gcfg.max /\ an.root_clauses # << >>)
    /\ gate_formula' = [gate_formula EXCEPT !.remainder =
                           @ \o Remainder(problem, index, nVars(problem))]
    /\ an' = [an EXCEPT !.pc = "done"]
    /\ UNCHANGED << problem, gcfg, index, solver, lastCall, cmb,
                    cnf_formula, gfCall >>
    /\ UNCHANGED varsWL

NextGate ==
    \/ AnalyzeBegin
    \/ PassBegin
    \/ LevelBegin
    \/ TryCandidate
    \/ LevelEnd
    \/ PassEnd
    \/ Finish

SpecGate == InitGate /\ [][NextGate]_vars

(***************************************************************************)
(* Properties of the gate analyzer.                                        *)
(***************************************************************************)
\* the variables with a recorded gate
Recorded == {v \in 1 .. nVars(problem) : gate_formula.gates[v].out # lit_Undef}

\* the value of literal l under the assignment that makes the variables of T true
Value(T, l) == (LitVar(l) \in T) # LitSign(l)

\* assignment T satisfies every clause of the lists fwd and bwd of gate g
Models(T, g) ==
    \A c \in Range(g.fwd) \cup Range(g.bwd) : \E l \in Range(problem[c]) : Value(T, l)

\* the output of gate g is a function of its inputs in the models of fwd, bwd
Functional(g) ==
    \A T1, T2 \in SUBSET (1 .. nVars(problem)) :
       (/\ Models(T1, g) /\ Models(T2, g)
        /\ \A l \in Range(g.inp) : Value(T1, l) = Value(T2, l))
       => Value(T1, g.out) = Value(T2, g.out)

\* every resolvent of a clause of fwd with a clause of bwd on the output of g
\* is a tautology
Blocked(g) ==
    \A c \in Range(g.fwd) : \A d \in Range(g.bwd) :
       \E l \in Range(problem[c]) :
          LitVar(l) # LitVar(g.out) /\ Negate(l) \in Range(problem[d])

RECURSIVE CountIn(_, _)
CountIn(c, sq) ==
    IF sq = << >> THEN 0
    ELSE (IF sq[1] = c THEN 1 ELSE 0) + CountIn(c, Tail(sq))

RECURSIVE GateCount(_, _)
GateCount(c, v) ==
    IF v = 0 THEN 0
    ELSE CountIn(c, gate_formula.gates[v].fwd)
         + CountIn(c, gate_formula.gates[v].bwd) + GateCount(c, v - 1)

Accounted(c) ==
    CountIn(c, gate_formula.roots) + GateCount(c, nVars(problem))
    + CountIn(c, gate_formula.remainder)

\* C8  Remainder completeness: after analyze() every clause of the problem is
\* accounted for exactly once in roots, the fwd and bwd lists of the gates
\* and remainder.
RemainderCompleteness ==
    an.pc = "done" => \A c \in 1 .. Len(problem) : Accounted(c) = 1

\* C9  Monotonicity bookkeeping: for every recorded gate each literal of inp
\* is marked used as input, and so is its negation when the gate is recorded
\* as non-monotonic.
MonotonicityBookkeeping ==
    \A v \in Recorded :
       \A l \in Range(gate_formula.gates[v].inp) :
          /\ isUsedAsInput(gate_formula, l)
          /\ gate_formula.gates[v].notMono => isUsedAsInput(gate_formula, Negate(l))

\* addGate has just recorded a non-monotonic gate with an input
BookkeepingWitness ==
    /\ lastCall.ok
    /\ gate_formula.gates[LitVar(lastCall.out)].notMono
    /\ gate_formula.gates[LitVar(lastCall.out)].inp # << >>
    /\ \A l \in Range(gate_formula.gates[LitVar(lastCall.out)].inp) :
          isUsedAsInput(gate_formula, l) /\ isUsedAsInput(gate_formula, Negate(l))

\* the next step is a call of isGate
AtIsGate == an.pc = "candidate" /\ an.ci <= Len(an.candidates)

\* the acceptance condition on the state before the call, with the
\* occurrence list of literal l required to be non-empty
GateCondition(o, l) ==
    LET fwd == occ(problem, index, Negate(o))
        bwd == occ(problem, index, o)
    IN /\ Len(occ(problem, index, l)) > 0
       /\ isBlockedSet(problem, index, o)
       /\ \/ isNestedMonotonic(gate_formula, o)
          \/ gcfg.patterns /\ fPattern(problem, o, fwd, bwd)
          \/ gcfg.semantic
             /\ fSemantic(problem, solver, o, fwd, bwd, nVars(problem)).result

\* the call of isGate on o returns true and records a gate for o
GateRecorded(o) ==
    /\ lastCall'.ok
    /\ gate_formula' # gate_formula
    /\ gate_formula'.gates[LitVar(o)].out = o

\* C10  isGate(o) returns true and records a gate iff occ(o) is non-empty, o
\* is a blocked set and o is nested-monotonic, or matches a pattern, or
\* passes the semantic check.
IsGateIffOccOut ==
    [][AtIsGate => (GateRecorded(an.candidates[an.ci])
                    <=> GateCondition(an.candidates[an.ci],
                                      an.candidates[an.ci]))]_vars

\* C10 (amended)  isGate(o) returns true and records a gate iff occ(~o), the
\* forward clauses, is non-empty, o is a blocked set and o is
\* nested-monotonic, or matches a pattern, or passes the semantic check.
IsGateIffOccNegOut ==
    [][AtIsGate => (GateRecorded(an.candidates[an.ci])
                    <=> GateCondition(an.candidates[an.ci],
                                      Negate(an.candidates[an.ci])))]_vars

\* isGate has accepted an output that occurs in no clause of the index
IsGateWitness ==
    /\ lastCall.ok
    /\ lastCall.bwd = << >> /\ lastCall.fwd # << >>
    /\ gate_formula.gates[LitVar(lastCall.out)].out = lastCall.out

(***************************************************************************)
(* The combiners applied to drawn values.                                  *)
(***************************************************************************)
\* the values of ring_prime_offset: none, and the offset of a prime ring
Offsets == {0, 3}

\* the orders in which a collection of three hashes can be iterated
Orders(a, b, c) ==
    {[k \in 1 .. 3 |-> << a, b, c >>[p[k]]] : p \in Permutations(1 .. 3)}

InitCombine ==
    /\ \E a, b, c \in Hashes : \E off \in Offsets :
          cmb = [pc |-> "drawn", a |-> a, b |-> b, c |-> c, off |-> off,
                 ab |-> 0, ba |-> 0, ab_c |-> 0, a_bc |-> 0,
                 carry_ab |-> 0, carry_ba |-> 0, carry_ab_c |-> 0,
                 carry_a_bc |-> 0, sums |-> {}]
    /\ WLIdle
    /\ GateIdle
    /\ FormulaIdle

\* combine(&acc, in) on acc = a, in = b and on acc = b, in = a
CombinePair ==
    /\ cmb.pc = "drawn"
    /\ cmb' = [cmb EXCEPT !.pc = "pair",
                          !.ab = combine(cmb.a, cmb.b, cmb.off),
                          !.ba = combine(cmb.b, cmb.a, cmb.off),
                          !.carry_ab = combine_carry(cmb.a, cmb.b),
                          !.carry_ba = combine_carry(cmb.b, cmb.a)]
    /\ UNCHANGED varsWL
    /\ UNCHANGED varsGate
    /\ UNCHANGED cnf_formula

\* c is combined into a+b, and b+c is combined into a
CombineTriple ==
    /\ cmb.pc = "pair"
    /\ cmb' = [cmb EXCEPT !.pc = "triple",
                          !.ab_c = combine(cmb.ab, cmb.c, cmb.off),
                          !.a_bc = combine(cmb.a, combine(cmb.b, cmb.c, cmb.off),
                                           cmb.off),
                          !.carry_ab_c = combine_carry(cmb.carry_ab, cmb.c),
                          !.carry_a_bc = combine_carry(cmb.a,
                                             combine_carry(cmb.b, cmb.c))]
    /\ UNCHANGED varsWL
    /\ UNCHANGED varsGate
    /\ UNCHANGED cnf_formula

\* hash_sum over the three values in each iteration order
FoldAll ==
    /\ cmb.pc = "triple"
    /\ cmb' = [cmb EXCEPT !.pc = "done",
                          !.sums = {hash_sum(hs, cmb.off) :
                                      hs \in Orders(cmb.a, cmb.b, cmb.c)}]
    /\ UNCHANGED varsWL
    /\ UNCHANGED varsGate
    /\ UNCHANGED cnf_formula

NextCombine == CombinePair \/ CombineTriple \/ FoldAll

SpecCombine == InitCombine /\ [][NextCombine]_vars

ZeroOnlyFromZero ==
    (cmb.pc \in {"pair", "triple", "done"} /\ cmb.off = 0) =>
        /\ cmb.ab = 0 => (cmb.a = 0 /\ cmb.b = 0)
        /\ cmb.ab = cmb.carry_ab

(***************************************************************************)
(* Properties of the hasher.                                               *)
(***************************************************************************)
TwinDone == wl[1].pc = "done" /\ wl[2].pc = "done"

\* the colors session s ends with tell at least two literals apart
Refined(s) ==
    /\ wl[s].iteration >= 1
    /\ \E k \in 1 .. 2 : \E l, m \in DOMAIN wl[s].color_functions[k] :
          wl[s].color_functions[k][l] # wl[s].color_functions[k][m]

\* C1  Rename invariance: the hash of the input with its variables permuted
\* equals the hash of the input, under every configuration.
RenameInvariance ==
    (twin.kind = "rename" /\ TwinDone) => wl[2].result = wl[1].result

\* both sessions of a renamed, refined input have returned
RenameWitness ==
    /\ twin.kind = "rename" /\ TwinDone
    /\ ApplyTransform(twin, input) # input
    /\ Refined(1)
    /\ wl[2].result = wl[1].result

\* C2  Clause and literal order invariance: reordering the clauses and the
\* literals inside clauses changes neither the hash nor the return statement
\* and iteration at which run() ends (the decision of the progress check).
OrderInvariance ==
    (twin.kind = "reorder" /\ TwinDone) =>
        /\ wl[2].result = wl[1].result
        /\ wl[2].ret = wl[1].ret
        /\ wl[2].iteration = wl[1].iteration

\* a reordered, refined input on which the progress check ended the run
OrderWitness ==
    /\ twin.kind = "reorder" /\ TwinDone
    /\ ApplyTransform(twin, input) # input
    /\ wl[1].cnf # wl[2].cnf
    /\ Refined(1)
    /\ wl[1].ret = "progress" /\ wl[2].ret = "progress"
    /\ wl[2].result = wl[1].result

\* C3  Polarity flip invariance: negating every occurrence of the variables
\* of a set leaves the hash unchanged, for even and for odd depths.
FlipInvariance ==
    (twin.kind = "flip" /\ TwinDone) => wl[2].result = wl[1].result

\* a flipped input whose polarities are told apart, ending in cnf_hash
FlipWitness ==
    /\ twin.kind = "flip" /\ TwinDone
    /\ twin.vars # {}
    /\ wl[1].cnf # wl[2].cnf
    /\ wl[1].cfg.cross_reference_literals
    /\ \E k \in 1 .. 2 : \E v \in 0 .. wl[1].nVars - 1 :
          wl[1].color_functions[k][2 * v] # wl[1].color_functions[k][2 * v + 1]
    /\ wl[1].ret = "cnf_hash"
    /\ wl[2].result = wl[1].result

\* C4  Tautology/duplicate idempotence: adding a tautological clause or
\* repeating a literal inside a clause does not change the hash.
IdempotenceInvariance ==
    (twin.kind \in {"tautology", "duplicate"} /\ TwinDone) =>
        wl[2].result = wl[1].result

(***************************************************************************)
(* One hasher run on its own, with budgets that let the progress check of  *)
(* run() be taken at several successive iterations.                        *)
(***************************************************************************)
\* largest depth of a single run
MaxRunDepth == 7

RunConfigs == [depth : 0 .. MaxRunDepth,
               cross_reference_literals : BOOLEAN,
               rehash_clauses : BOOLEAN,
               optimize_first_iteration : BOOLEAN,
               first_progress_check_iteration : 0 .. MaxFirstCheck,
               ring_prime_offset : {0}]

\* an input on four variables whose variable partition gets coarser from
\* the second iteration to the third when no hash is applied to the sums
CoarseningInput ==
    << << 0 - 4, 0 - 1 >>, << 0 - 3, 1 >>, << 0 - 4, 3 >>, << 2, 0 - 3, 1 >> >>

\* one session is constructed; the second slot stays empty
InitRun ==
    /\ input \in Inputs \cup {CoarseningInput}
    /\ twin = NoTwin
    /\ \E c \in RunConfigs : wl = << NewHasher(input, c), IdleHasher >>
    /\ CombineIdle
    /\ FormulaIdle
    /\ GateIdle

NextRun == RunLoop(1) \/ RunReturn(1)

SpecRun == InitRun /\ [][NextRun]_vars
\* run() is a loop of a sequential program: it keeps taking its next turn
InitRunLive == InitRun /\ Len(input) = 1
SpecRunLive == InitRunLive /\ [][NextRun]_vars /\ WF_vars(NextRun)

\* the number of distinct variable hashes check_progress counts in session h
distinctVariableHashes(h) ==
    Cardinality({LitColors_variable_hash(h.color_functions[old_color(h)], v) :
                    v \in 0 .. h.nVars - 1})

\* check_progress counts in the state h: the first line of it does not return
ChecksProgress(h) ==
    /\ h.pc = "run"
    /\ h.iteration < h.cfg.depth \div 2
    /\ h.iteration >= h.cfg.first_progress_check_iteration

\* C11  Termination: every run ends, and the iteration counter never exceeds
\* depth / 2 (rounded down), whatever the formula and the configuration.
BoundedTermination ==
    /\ [](wl[1].iteration <= wl[1].cfg.depth \div 2)
    /\ <>(wl[1].pc = "done")

\* a run that used its whole budget of at least two steps
BudgetWitness ==
    /\ wl[1].pc = "done"
    /\ wl[1].iteration = wl[1].cfg.depth \div 2
    /\ wl[1].iteration >= 2
    /\ wl[1].ret # "progress"

\* C12  Convergence returns the variable hash: a run that the progress
\* check ends returns the value variable_hash() yields for the current
\* colors, whether literals are cross-referenced or not.
ProgressReturnsVariableHash ==
    wl[1].ret = "progress" => wl[1].result = variable_hash(wl[1])

\* C13  Progress monotonicity: from one progress check of a run to the next
\* the number of distinct variable hashes never decreases, and a run stops
\* early only at a check that counts exactly the number recorded before.
ProgressMonotonicity ==
    [][LET h == wl[1]
           h2 == wl'[1]
       IN /\ (ChecksProgress(h) /\ ChecksProgress(h2)) =>
                distinctVariableHashes(h2) >= distinctVariableHashes(h)
          /\ (h.pc = "run" /\ h2.ret = "progress") =>
                distinctVariableHashes(h) = h.previous_unique_hashes]_vars

\* C13 as the code has it: the recorded number previous_unique_hashes never
\* decreases; a check that counts more than it records the count and the
\* run goes on; a run stops early exactly at a check that counts no more
\* than the recorded number, equal or smaller.
ProgressRecordMonotonicity ==
    [][LET h == wl[1]
           h2 == wl'[1]
           n == distinctVariableHashes(h)
       IN /\ h2.previous_unique_hashes >= h.previous_unique_hashes
          /\ (h.pc = "run" /\ h2.ret = "progress") =>
                (ChecksProgress(h) /\ n <= h.previous_unique_hashes)
          /\ ChecksProgress(h) =>
                IF n <= h.previous_unique_hashes
                THEN h2.ret = "progress"
                ELSE /\ h2.pc = "run"
                     /\ h2.iteration = h.iteration + 1
                     /\ h2.previous_unique_hashes = n]_vars

\* the second check of a run without cross-reference and rehash, where the
\* colors are plain sums, counts fewer variable hashes than the first
\* recorded, and the run stops there
ProgressDecreaseWitness ==
    /\ input = CoarseningInput
    /\ ~wl[1].cfg.cross_reference_literals
    /\ ~wl[1].cfg.rehash_clauses
    /\ ~wl[1].cfg.optimize_first_iteration
    /\ wl[1].ret = "progress"
    /\ wl[1].iteration > wl[1].cfg.first_progress_check_iteration
    /\ wl[1].previous_unique_hashes >= 2
    /\ distinctVariableHashes(wl[1]) < wl[1].previous_unique_hashes

\* the combination of the clause hashes of session h over its current colors
ClauseHashCombination(h) ==
    hash_sum([j \in 1 .. Len(h.cnf) |-> clause_hash(h, h.cnf[j])],
             h.cfg.ring_prime_offset)

\* C14  Budget exhaustion: a run whose loop ends with the budget used up
\* returns the variable hash of its colors when depth is even, and when
\* depth is odd the combination of the clause hashes over the colors a
\* final cross-reference leaves.
ExhaustedBudgetResult ==
    [][LET h == wl[1]
           h2 == wl'[1]
       IN (h.pc = "run" /\ h.iteration >= h.cfg.depth \div 2) =>
             /\ h2.pc = "done"
             /\ h2.iteration = h.iteration
             /\ IF h.cfg.depth % 2 = 0
                THEN /\ h2.result = variable_hash(h)
                     /\ h2.color_functions = h.color_functions
                ELSE /\ h2.color_functions = cross_reference(h).color_functions
                     /\ h2.result = ClauseHashCombination(h2)]_vars

\* an odd-depth run ended on its budget after refining, with a final
\* cross-reference that changed the colors
ExhaustedBudgetWitness ==
    /\ wl[1].ret = "cnf_hash"
    /\ wl[1].iteration = wl[1].cfg.depth \div 2
    /\ wl[1].iteration >= 1
    /\ wl[1].cfg.cross_reference_literals
    /\ Refined(1)
    /\ wl[1].result = ClauseHashCombination(wl[1])

(***************************************************************************)
(* fPattern on its own: the predicate is applied to the occurrence lists   *)
(* of a candidate output in problems whose clauses all hold the output     *)
(* variable.                                                               *)
(***************************************************************************)
\* largest variable of a problem fPattern is applied to
NVarsP == 3
\* largest number of clauses of a problem fPattern is applied to
MaxPatternClauses == 4

PatternProblems ==
    {AsProblem(F) :
        F \in {G \in SUBSET {c \in StoredClauses(NVarsP) :
                                \E l \in c : LitVar(l) = 1} :
                  Cardinality(G) \in 1 .. MaxPatternClauses}}

\* an analyzer is constructed on a problem; nothing is analyzed yet
InitPattern ==
    /\ problem \in PatternProblems
    /\ gcfg = [patterns |-> TRUE, semantic |-> FALSE, max |-> 1]
    /\ index = 1 .. Len(problem)
    /\ gate_formula = NewGateFormula(nVars(problem))
    /\ solver = NewSolver
    /\ an = IdleAnalyzer
    /\ lastCall = NoCall
    /\ gfCall = NoOperation
    /\ WLIdle
    /\ CombineIdle
    /\ FormulaIdle

\* fPattern(o, index[~o], index[o]) is evaluated for an output literal o
CallPattern ==
    \E o \in {Lit(1, FALSE), Lit(1, TRUE)} :
       LET fwd == occ(problem, index, Negate(o))
           bwd == occ(problem, index, o)
           r == fPattern(problem, o, fwd, bwd)
       IN /\ lastCall' = [out |-> o, ok |-> r, fwd |-> fwd, bwd |-> bwd,
                          monotonic |-> FALSE, pattern |-> r, probed |-> FALSE]
          /\ UNCHANGED << problem, gcfg, index, gate_formula, solver,
                          an, gfCall >>
          /\ UNCHANGED << input, twin, wl, cmb, cnf_formula >>

NextPattern == CallPattern

SpecPattern == InitPattern /\ [][NextPattern]_vars

\* fwd and bwd are a full encoding over k >= 1 inputs: the same k input
\* variables on both sides, 2^(k-1) clauses on each side, and the literals
\* of fwd other than ~o are both polarities of every input
FullEncoding(o, fwd, bwd) ==
    LET fwd_lits == Range(LitsOf(problem, fwd, 1, Negate(o)))
        I == {LitVar(l) : l \in fwd_lits}
        k == Cardinality(I)
    IN /\ k >= 1
       /\ {LitVar(l) : l \in Range(LitsOf(problem, bwd, 1, o))} = I
       /\ Len(fwd) = 2 ^ (k - 1)
       /\ Len(bwd) = 2 ^ (k - 1)
       /\ fwd_lits = UNION {{Lit(v, FALSE), Lit(v, TRUE)} : v \in I}

\* C15  fPattern accepts every full encoding: whenever fwd and bwd are a
\* full encoding over k >= 1 inputs, fPattern(o, fwd, bwd) returns true.
FullEncodingAccepted ==
    (lastCall.out # lit_Undef
        /\ FullEncoding(lastCall.out, lastCall.fwd, lastCall.bwd))
      => lastCall.pattern

\* C16  Semantic probes are independent: the result of every fSemantic call
\* of an analysis is the result the same call yields on an oracle that has
\* seen no probe before, so it depends on o, fwd and bwd only.
ProbeIndependence ==
    lastCall.probed =>
        lastCall.ok = fSemantic(problem, NewSolver, lastCall.out, lastCall.fwd,
                                lastCall.bwd, nVars(problem)).result

\* C17  One gate per variable: a gate record that has been written is never
\* written again, and a successful isGate call is always on a variable, in
\* either polarity, that has no gate record yet.
GateWrittenOnce ==
    [][/\ \A v \in Recorded : gate_formula'.gates[v] = gate_formula.gates[v]
       /\ (AtIsGate /\ lastCall'.ok) =>
             LitVar(lastCall'.out) \notin Recorded]_vars

\* the output of a recorded gate was a candidate again, in the other
\* polarity, and was turned down
SecondAttemptWitness ==
    /\ lastCall.out # lit_Undef
    /\ ~lastCall.ok
    /\ LitVar(lastCall.out) \in Recorded
    /\ gate_formula.gates[LitVar(lastCall.out)].out = Negate(lastCall.out)

(***************************************************************************)
(* Properties of the CNF storage the hasher reads.                         *)
(***************************************************************************)
\* the variables of a DIMACS input
InputVars(inp) ==
    UNION {{Abs(inp[i][k]) : k \in 1 .. Len(inp[i])} : i \in 1 .. Len(inp)}

\* the clause lines inp as literal sequences under the variable naming name
Named(inp, name) ==
    [i \in 1 .. Len(inp) |->
        [k \in 1 .. Len(inp[i]) |-> Lit(name[Abs(inp[i][k])], inp[i][k] < 0)]]

\* the injective namings of the variables of inp by 0 .. n-1
Namings(inp) ==
    {name \in [InputVars(inp) -> 0 .. Cardinality(InputVars(inp)) - 1] :
        \A v, w \in InputVars(inp) : v # w => name[v] # name[w]}

\* the non-empty lines of inp by increasing length, lines of one length in
\* the order of inp
RECURSIVE SizeGrouped(_, _)
SizeGrouped(inp, len) ==
    IF \A i \in 1 .. Len(inp) : Len(inp[i]) < len THEN << >>
    ELSE SelectSeq(inp, LAMBDA cl : Len(cl) = len) \o SizeGrouped(inp, len + 1)

MaxReadVar == 2
\* largest number of literals of a clause passed to readClause
MaxReadLen == 3
\* largest number of readClause calls on one formula
MaxReadCalls == 2

\* the clauses passed to readClause: any literals, repeated or complementary
ReadInputs ==
    UNION {[1 .. n -> 2 .. 2 * MaxReadVar + 1] : n \in 0 .. MaxReadLen}

\* CNFFormula(): the empty formula
InitRead ==
    /\ cnf_formula = NoFormula
    /\ WLIdle
    /\ CombineIdle
    /\ GateIdle

\* readClause(begin, end) on the literals lits
ReadClause ==
    /\ cnf_formula.calls < MaxReadCalls
    /\ \E lits \in ReadInputs :
          LET F == readClauseInto([formula |-> cnf_formula.formula,
                                   variables |-> cnf_formula.variables], lits)
          IN cnf_formula' = [formula |-> F.formula, variables |-> F.variables,
                             last |-> lits, calls |-> cnf_formula.calls + 1]
    /\ UNCHANGED varsWL
    /\ UNCHANGED varsGate
    /\ UNCHANGED cmb

NextRead == ReadClause

SpecRead == InitRead /\ [][NextRead]_vars

\* the literals lits hold both polarities of a variable
Tautological(lits) == \E l \in Range(lits) : Negate(l) \in Range(lits)

\* C19  Stored clauses are normal: every clause readClause stores is sorted
\* by literal index without a repeated literal and without a complementary
\* pair; a clause is stored as the sorted set of its literals, and a clause
\* holding both polarities of a variable changes neither the stored clauses
\* nor nVars.
StoredClausesNormal ==
    /\ [](\A i \in 1 .. Len(cnf_formula.formula) :
             LET c == cnf_formula.formula[i]
             IN /\ \A k \in 1 .. Len(c) - 1 : c[k] < c[k + 1]
                /\ ~Tautological(c))
    /\ [][LET lits == cnf_formula'.last
          IN IF Tautological(lits)
             THEN /\ cnf_formula'.formula = cnf_formula.formula
                  /\ cnf_formula'.variables = cnf_formula.variables
             ELSE /\ cnf_formula'.formula =
                        Append(cnf_formula.formula, SortedSeq(Range(lits)))
                  /\ cnf_formula'.variables =
                        MaxOf({cnf_formula.variables}
                              \cup {LitVar(l) : l \in Range(lits)})]_vars

\* a clause with a repeated literal was stored collapsed after a clause
\* with a complementary pair was dropped
CollapsedWitness ==
    /\ cnf_formula.calls = 2
    /\ Len(cnf_formula.formula) = 1
    /\ Len(cnf_formula.last) = 3
    /\ Len(cnf_formula.formula[1]) = 2
    /\ cnf_formula.last[1] > cnf_formula.last[3]
    /\ Range(cnf_formula.last) = Range(cnf_formula.formula[1])
    /\ cnf_formula.variables = MaxReadVar

\* C20  Empty clauses are rejected: no stored formula holds an empty
\* clause, and reading a clause without literals leaves the number of
\* stored clauses unchanged.
EmptyClauseRejected ==
    \A i \in 1 .. Len(cnf_formula.formula) : Len(cnf_formula.formula[i]) > 0


(***************************************************************************)
(* normalizeVariableNames of the pointer-per-clause layouts: clauses are   *)
(* read into one formula, which is then normalized.                        *)
(***************************************************************************)
\* the renaming loop of CNFFormula (first revision): the name table is
\* filled with 0 and a name equal to 0 counts as not yet given
RECURSIVE RenameLits_zero(_, _, _, _)
RenameLits_zero(lits, i, name, max) ==
    IF i > Len(lits) THEN [lits |-> lits, name |-> name, max |-> max]
    ELSE LET v == LitVar(lits[i])
             fresh == name[v] = 0
             name2 == IF fresh THEN [name EXCEPT ![v] = max] ELSE name
             max2 == IF fresh THEN max + 1 ELSE max
         IN RenameLits_zero([lits EXCEPT ![i] = Lit(name2[v], LitSign(lits[i]))],
                            i + 1, name2, max2)

\* the outer loop of normalizeVariableNames over the clauses of the formula
RECURSIVE RenameFormula(_, _, _, _, _)
RenameFormula(formula, j, name, max, zero) ==
    IF j > Len(formula) THEN [formula |-> formula, variables |-> max]
    ELSE LET r == IF zero THEN RenameLits_zero(formula[j], 1, name, max)
                          ELSE RenameLits(formula[j], 1, name, max)
         IN RenameFormula([formula EXCEPT ![j] = r.lits], j + 1, r.name, r.max,
                          zero)

\* CNFFormula::normalizeVariableNames (first revision)
CNFFormula_normalizeVariableNames(F) ==
    RenameFormula(F.formula, 1, [v \in 0 .. F.variables |-> 0], 0, TRUE)

\* TemplateCNFFormula::normalizeVariableNames
TemplateCNFFormula_normalizeVariableNames(F) ==
    RenameFormula(F.formula, 1, [v \in 0 .. F.variables |-> -1], 0, FALSE)

\* the layouts whose normalizeVariableNames runs over a list of clauses
Layouts == {"CNFFormula", "TemplateCNFFormula"}

\* the formula has been normalized: the record keeps the layout and the
\* clauses before the call
Normalized == "before" \in DOMAIN cnf_formula

\* normalizeVariableNames() on the formula read so far, in one of the layouts
NormalizeVariableNames ==
    /\ ~Normalized
    /\ \E layout \in Layouts :
          LET F == [formula |-> cnf_formula.formula,
                    variables |-> cnf_formula.variables]
              N == IF layout = "CNFFormula"
                   THEN CNFFormula_normalizeVariableNames(F)
                   ELSE TemplateCNFFormula_normalizeVariableNames(F)
          IN cnf_formula' = [formula |-> N.formula, variables |-> N.variables,
                             last |-> cnf_formula.last,
                             calls |-> cnf_formula.calls,
                             layout |-> layout,
                             before |-> cnf_formula.formula]
    /\ UNCHANGED varsWL
    /\ UNCHANGED varsGate
    /\ UNCHANGED cmb

NextNormalize == ReadClause \/ NormalizeVariableNames

SpecNormalize == InitRead /\ [][NextNormalize]_vars

\* the literals of the clauses of a formula in the order of iteration
RECURSIVE Flatten(_)
Flatten(formula) ==
    IF formula = << >> THEN << >> ELSE formula[1] \o Flatten(Tail(formula))

\* the position of the first occurrence of variable v in a literal sequence
FirstOccurrence(lits, v) ==
    MinOf({i \in 1 .. Len(lits) : LitVar(lits[i]) = v})

\* formula new is formula old under a bijection of the occurring variables
\* onto 0 .. V'-1 that follows the order of first occurrence, signs kept
DenseRenaming(old, new, variables) ==
    LET lits == Flatten(old)
        Occurring == {LitVar(lits[i]) : i \in 1 .. Len(lits)}
        V == Cardinality(Occurring)
    IN /\ variables = V
       /\ \E name \in [Occurring -> 0 .. V - 1] :
             /\ \A v, w \in Occurring :
                   FirstOccurrence(lits, v) < FirstOccurrence(lits, w)
                      => name[v] < name[w]
             /\ new = [j \in 1 .. Len(old) |->
                          [k \in 1 .. Len(old[j]) |->
                              Lit(name[LitVar(old[j][k])], LitSign(old[j][k]))]]

\* C21  normalizeVariableNames maps the occurring variables bijectively onto
\* 0 .. V'-1 in order of first occurrence: one variable gets one name,
\* distinct variables get distinct names, signs are kept, and nVars() is V'
\* afterwards.
NormalizeIsDenseBijection ==
    Normalized =>
        DenseRenaming(cnf_formula.before, cnf_formula.formula,
                      cnf_formula.variables)

\* the same statement for the layout of TemplateCNFFormula alone
TemplateNormalizeIsDense ==
    (Normalized /\ cnf_formula.layout = "TemplateCNFFormula") =>
        DenseRenaming(cnf_formula.before, cnf_formula.formula,
                      cnf_formula.variables)

(***************************************************************************)
(* The utilities of GateFormula, called on the gate formula that analyze() *)
(* has built: getPrunedProblem(model) and normalizeRoots().                *)
(***************************************************************************)
\* largest number of clauses of a problem whose gate formula is used further
MaxUtilityClauses == 3

UtilityProblems ==
    {P \in Problems : Len(P) <= MaxUtilityClauses}
    \cup {OrGateProblem, AndGateProblem}

InitUtility == InitGate /\ problem \in UtilityProblems

\* getRootLiterals(): the literals of the root clauses, sorted, each once
getRootLiterals(F, gf) ==
    SortedSeq(UNION {Range(F[gf.roots[i]]) : i \in 1 .. Len(gf.roots)})

\* the while loop of getPrunedProblem: the clauses it hands to std::copy,
\* in order; literals is the stack, visited the stamped variables
RECURSIVE PruneLoop(_, _, _, _, _)
PruneLoop(gf, model, literals, visited, copied) ==
    IF literals = << >> THEN copied
    ELSE LET o == literals[Len(literals)]
             popped == SubSeq(literals, 1, Len(literals) - 1)
             gate == gf.gates[LitVar(o)]
         IN IF gate.out = lit_Undef
            THEN PruneLoop(gf, model, popped, visited, copied)
            ELSE IF LitVar(o) \notin visited /\ (gate.notMono \/ model[o])
                 THEN PruneLoop(gf, model, popped \o gate.inp,
                                visited \cup {LitVar(o)},
                                copied \o gate.fwd
                                   \o (IF gate.notMono THEN gate.bwd ELSE << >>))
                 ELSE PruneLoop(gf, model, popped, visited, copied)

\* getPrunedProblem(model): the outcomes of the call.  std::copy writes the
\* gate clauses to result.end() and behind, where the vector has no
\* elements: the behaviour is undefined as soon as one clause is copied.
\* The size of result is never changed by it, so a call that returns
\* returns the roots and the remainder; or the call does not return.
getPrunedProblem(F, gf, model) ==
    LET copied == PruneLoop(gf, model, getRootLiterals(F, gf), {}, << >>)
        result == gf.roots \o gf.remainder
    IN IF copied = << >>
       THEN {[returned |-> TRUE, result |-> result, copied |-> copied]}
       ELSE {[returned |-> TRUE, result |-> result, copied |-> copied],
             [returned |-> FALSE, result |-> << >>, copied |-> copied]}

\* getPrunedProblem(model) on the analysed gate formula; the model makes
\* the variables of T true
GetPrunedProblem ==
    /\ an.pc = "done"
    /\ gfCall = NoOperation
    /\ \E T \in SUBSET (1 .. nVars(problem)) :
          LET model == [l \in 0 .. 2 * nVars(problem) + 1 |-> Value(T, l)]
          IN \E r \in getPrunedProblem(problem, gate_formula, model) :
                gfCall' = [op |-> "getPrunedProblem", model |-> T,
                           returned |-> r.returned, result |-> r.result,
                           copied |-> r.copied]
    /\ UNCHANGED << problem, gcfg, index, gate_formula, solver, an, lastCall,
                    cmb, cnf_formula >>
    /\ UNCHANGED varsWL

\* the literals the traversal reaches under the assignment T: the root
\* literals and the inputs of every reached gate whose output is satisfied
RECURSIVE ReachedLiterals(_, _)
ReachedLiterals(R, T) ==
    LET more == R \cup UNION {Range(gate_formula.gates[v].inp) :
                   v \in {w \in Recorded :
                            /\ \E o \in R : LitVar(o) = w
                            /\ Value(T, gate_formula.gates[w].out)}}
    IN IF more = R THEN R ELSE ReachedLiterals(more, T)

\* the gates reached from the root literals whose output literal is
\* satisfied under T
SatisfiedGates(T) ==
    LET R == ReachedLiterals(Range(getRootLiterals(problem, gate_formula)), T)
    IN {v \in Recorded : /\ \E o \in R : LitVar(o) = v
                         /\ Value(T, gate_formula.gates[v].out)}

RECURSIVE SumOver(_, _)
SumOver(S, f) ==
    IF S = {} THEN 0
    ELSE LET x == CHOOSE x \in S : TRUE IN f[x] + SumOver(S \ {x}, f)

\* how often clause c belongs to the pruned problem under T
PrunedCount(c, T) ==
    CountIn(c, gate_formula.roots) + CountIn(c, gate_formula.remainder)
    + SumOver(SatisfiedGates(T),
              [v \in SatisfiedGates(T) |->
                  CountIn(c, gate_formula.gates[v].fwd)
                  + (IF gate_formula.gates[v].notMono
                     THEN CountIn(c, gate_formula.gates[v].bwd) ELSE 0)])

\* C22  getPrunedProblem(model) returns all root clauses, all remainder
\* clauses and, for every gate reached from the root literals whose output
\* literal is satisfied under the model, the fwd clauses of the gate (and
\* its bwd clauses when the gate is non-monotonic), the clauses of each
\* gate once.
PrunedProblemHoldsGates ==
    gfCall.op = "getPrunedProblem" =>
        /\ gfCall.returned
        /\ \A c \in 1 .. Len(problem) :
              CountIn(c, gfCall.result) = PrunedCount(c, gfCall.model)

\* the loop of normalizeRoots over roots: clause c collects its literals in
\* inp, gains the literal Lit(root, true) in place, and a copy of it (a new
\* clause object at the end of heap) joins fwd
RECURSIVE ExtendRoots(_, _, _, _, _, _)
ExtendRoots(heap, roots, i, root, inp, fwd) ==
    IF i > Len(roots) THEN [heap |-> heap, inp |-> inp, fwd |-> fwd]
    ELSE LET c == roots[i]
             pushed == [heap EXCEPT ![c] = Append(@, Lit(root, TRUE))]
         IN ExtendRoots(Append(pushed, pushed[c]), roots, i + 1, root,
                        inp \cup Range(heap[c]), Append(fwd, Len(pushed) + 1))

\* a normalizeRoots that does not clear the remainder
normalizeRoots_keep_remainder(F, gf) ==
    LET root == Cardinality(DOMAIN gf.gates)
        artificialRoot == Len(F) + 1
        r == ExtendRoots(Append(F, << >>), gf.roots \o gf.remainder, 1, root,
                         {}, << >>)
        gate == [out |-> Lit(root, FALSE), fwd |-> r.fwd, bwd |-> << >>,
                 notMono |-> FALSE, inp |-> SortedSeq(r.inp)]
    IN [gate_formula |->
           [roots |-> << artificialRoot >>,
            inputs |-> gf.inputs,
            gates |-> [v \in 0 .. root |->
                          IF v = root THEN gate ELSE gf.gates[v]],
            remainder |-> gf.remainder],
        heap |-> [r.heap EXCEPT ![artificialRoot] =
                                   Append(@, Lit(root, FALSE))],
        root |-> root]

\* normalizeRoots(): the gate formula it leaves, the clause objects after
\* the call (heap: the clauses of the problem at their positions, then the
\* clause artificialRoot of the constructor, then the copies made by the
\* loop), and the fresh variable root
normalizeRoots(F, gf) ==
    LET root == Cardinality(DOMAIN gf.gates)
        artificialRoot == Len(F) + 1
        r == ExtendRoots(Append(F, << >>), gf.roots \o gf.remainder, 1, root,
                         {}, << >>)
        gate == [out |-> Lit(root, FALSE), fwd |-> r.fwd, bwd |-> << >>,
                 notMono |-> FALSE, inp |-> SortedSeq(r.inp)]
    IN [gate_formula |->
           [roots |-> << artificialRoot >>,
            inputs |-> gf.inputs,
            gates |-> [v \in 0 .. root |->
                          IF v = root THEN gate ELSE gf.gates[v]],
            remainder |-> << >>],
        heap |-> [r.heap EXCEPT ![artificialRoot] =
                                   Append(@, Lit(root, FALSE))],
        root |-> root]

\* getRoot(): the literal of the unit clause that is the only root
getRoot(heap, gf) == heap[gf.roots[1]][1]

\* normalizeRoots() on the analysed gate formula
NormalizeRoots ==
    /\ an.pc = "done"
    /\ gfCall = NoOperation
    /\ LET r == normalizeRoots(problem, gate_formula)
       IN /\ gate_formula' = r.gate_formula
          /\ gfCall' = [op |-> "normalizeRoots", root |-> r.root,
                        heap |-> r.heap]
    /\ UNCHANGED << problem, gcfg, index, solver, an, lastCall,
                    cmb, cnf_formula >>
    /\ UNCHANGED varsWL

NextUtility == NextGate \/ GetPrunedProblem \/ NormalizeRoots

SpecUtility == InitUtility /\ [][NextUtility]_vars

\* the variables used by the clauses of the problem and by the gates of gf
UsedVariables(gf) ==
    {LitVar(l) : l \in UNION {Range(problem[c]) : c \in 1 .. Len(problem)}}
    \cup UNION {{LitVar(gf.gates[v].out)}
                   \cup {LitVar(l) : l \in Range(gf.gates[v].inp)} :
                v \in {w \in DOMAIN gf.gates : gf.gates[w].out # lit_Undef}}

\* the step is a call of normalizeRoots() that leaves variable r, and every
\* former root and remainder clause has gained literal gained(r)
NormalizedRoots(r, gained) ==
    /\ r \notin UsedVariables(gate_formula)
    /\ \A c \in Range(gate_formula.roots) \cup Range(gate_formula.remainder) :
          gfCall'.heap[c] = Append(problem[c], gained)
    /\ gate_formula'.remainder = << >>
    /\ Len(gate_formula'.roots) = 1
    /\ gfCall'.heap[gate_formula'.roots[1]] = << Lit(r, FALSE) >>
    /\ getRoot(gfCall'.heap, gate_formula') = Lit(r, FALSE)

\* C23  After normalizeRoots() on an analysed gate formula a fresh variable
\* r, used by no clause or gate before, has been introduced, every former
\* root and remainder clause has gained literal r, remainder is empty and
\* roots is the one unit clause {r}, so that getRoot() returns r.
RootsGainRootLiteral ==
    [][gfCall'.op = "normalizeRoots" =>
          NormalizedRoots(gfCall'.root, Lit(gfCall'.root, FALSE))]_vars

\* C23 as the code has it: every former root and remainder clause has
\* gained the literal ~r, the negation of the root literal r; r is fresh,
\* remainder is empty, roots is the one unit clause {r}, getRoot() is r.
RootsGainNegatedRoot ==
    [][gfCall'.op = "normalizeRoots" =>
          NormalizedRoots(gfCall'.root, Lit(gfCall'.root, TRUE))]_vars

\* normalizeRoots() has run on a gate formula with a recognized gate and
\* with a root clause and a remainder clause
NormalizedRootsWitness ==
    /\ gfCall.op = "normalizeRoots"
    /\ Recorded # {}
    /\ Len(gate_formula.gates[gfCall.root].fwd)
          > Len(Remainder(problem, index, nVars(problem)))
    /\ gate_formula.remainder = << >>
    /\ \E c \in Range(Remainder(problem, index, nVars(problem))) :
          gfCall.heap[c] = Append(problem[c], Lit(gfCall.root, TRUE))
    /\ getRoot(gfCall.heap, gate_formula) = Lit(gfCall.root, FALSE)

(***************************************************************************)
(* Termination of analyze().                                               *)
(***************************************************************************)
\* largest number of clauses of a problem of the fair analysis
MaxLiveClauses == 2

\* a chain of two gates below the root (x1): x1 has the input x2
ChainClauses ==
    {<< Lit(1, FALSE) >>, << Lit(1, TRUE), Lit(2, FALSE) >>, << Lit(2, TRUE) >>}

LiveProblems ==
    {P \in Problems : Len(P) <= MaxLiveClauses \/ Range(P) = ChainClauses}

InitGateLive == InitGate /\ problem \in LiveProblems

\* analyze() is a sequential program: it keeps taking its next step
SpecGateLive == InitGateLive /\ [][NextGate]_vars /\ WF_vars(NextGate)

\* gate_recognition is running
InRecognition == an.pc \in {"level", "candidate"}

\* C24  analyze always terminates: it takes at most maxPasses root
\* selections (passes that append a selection to roots), stops as soon as
\* estimateRoots returns no clause, and every breadth-first gate search ends,
\* with an empty frontier.
AnalyzeTerminates ==
    /\ [](an.count <= gcfg.max /\ (InRecognition => an.count < gcfg.max))
    /\ [][/\ (an.pc = "pass" /\ an.root_clauses = << >>) => an'.pc = "done"
          /\ (InRecognition /\ ~InRecognition') =>
                (an.frontier = << >> /\ an'.frontier = << >>)]_vars
    /\ <>(an.pc = "done")

\* an analysis has ended with its passes used up after a gate search of
\* two levels: an input of a recorded gate is the output of another one
TwoLevelsWitness ==
    /\ an.pc = "done"
    /\ an.count = gcfg.max
    /\ \E v, w \in Recorded :
          /\ v # w
          /\ gate_formula.gates[w].out \in Range(gate_formula.gates[v].inp)


(***************************************************************************)
(* The modulo-prime combiner.                                              *)
(***************************************************************************)
\* ring_size of combine for the template argument ring_prime_offset = off
ringSize(off) == HashMod - off

\* C25  With ring_prime_offset > 0 every summand is reduced before
\* combining: for all values acc and in of the hash width, combine leaves
\* acc equal to (acc + in) mod ringSize, a value below ringSize.
RingCombineReduces ==
    (cmb.pc \in {"pair", "triple", "done"} /\ cmb.off > 0) =>
        /\ cmb.ab = (cmb.a + cmb.b) % ringSize(cmb.off)
        /\ cmb.ab < ringSize(cmb.off)

\* the same statement for accumulators that are below ringSize already
RingCombineReducesReduced ==
    (cmb.pc \in {"pair", "triple", "done"} /\ cmb.off > 0
        /\ cmb.a < ringSize(cmb.off)) =>
        /\ cmb.ab = (cmb.a + cmb.b) % ringSize(cmb.off)
        /\ cmb.ab < ringSize(cmb.off)

(***************************************************************************)
(* The protocol of the SAT oracle in fSemantic.                            *)
(***************************************************************************)
\* the oracle at the call of ipasir_solve in fSemantic(o, fwd, bwd) on S
AtSolve(S, o, fwd, bwd) == AddConstraint(problem, S, fwd \o bwd, 1, o)

\* C26  SAT-oracle protocol: in every sequence of fSemantic probes on one
\* oracle, no clause is open at a call of solve: every literal added since
\* the last terminator has been followed by add(0) before solve is called.
NoOpenClauseAtSolve ==
    [][(AtIsGate /\ lastCall'.probed) =>
          AtSolve(solver, lastCall'.out, lastCall'.fwd, lastCall'.bwd).open
             = {}]_vars

\* a probe has run on an oracle that held the clauses and the open literal
\* of an earlier probe
LaterProbeWitness ==
    /\ lastCall.probed
    /\ solver.open # {}
    /\ \E c \in solver.clauses :
          c \notin AtSolve(NewSolver, lastCall.out, lastCall.fwd,
                           lastCall.bwd).clauses
    /\ \E c \in AtSolve(NewSolver, lastCall.out, lastCall.fwd,
                        lastCall.bwd).clauses : c \notin solver.clauses

(***************************************************************************)
(* Monotonicity of the recorded gates at the end of the analysis.          *)
(***************************************************************************)
\* C27  When analyze() has finished, every recorded gate whose notMono flag
\* is false is monotonic: its output literal and the negation of it are not
\* both marked used-as-input, whatever gates were recorded after it.
MonotonicFlagFinal ==
    an.pc = "done" =>
        \A v \in Recorded :
           ~gate_formula.gates[v].notMono =>
               isNestedMonotonic(gate_formula, gate_formula.gates[v].out)

\* the analysis has ended with a gate recorded as monotonic and another
\* gate recorded as non-monotonic, its output marked in both polarities
MonotonicFlagWitness ==
    /\ an.pc = "done"
    /\ \E v, w \in Recorded :
          /\ v # w
          /\ ~gate_formula.gates[v].notMono
          /\ isNestedMonotonic(gate_formula, gate_formula.gates[v].out)
          /\ gate_formula.gates[v].inp # << >>
          /\ gate_formula.gates[w].notMono
          /\ ~isNestedMonotonic(gate_formula, gate_formula.gates[w].out)

(***************************************************************************)
(* The candidates of a level of gate_recognition.                          *)
(***************************************************************************)
\* C28  Within one pass each candidate output literal is attempted by
\* isGate at most once, also when the root clauses of the pass share
\* literals: the candidate list is duplicate-free after the unique filter.
CandidatesDuplicateFree ==
    an.pc = "candidate" =>
        \A i, k \in 1 .. Len(an.candidates) :
           i # k => an.candidates[i] # an.candidates[k]

(***************************************************************************)
(* The range-for over clauses() of the pointer-per-clause layouts          *)
(* (TemplateCNFFormula, NaiveCNFFormula): clauses are read into one        *)
(* formula, which is then iterated.                                        *)
(***************************************************************************)
\* ClauseIt::operator != (o): the iterator is compared with itself
ClauseIt_neq(it, o) == it # it

\* for (Clause cl : clauses()): the clauses the loop body runs on; an
\* iterator is a position of formula, end() the position behind the last
RECURSIVE RangeFor(_, _, _)
RangeFor(formula, it, end) ==
    IF ClauseIt_neq(it, end)
    THEN << formula[it] >> \o RangeFor(formula, it + 1, end)
    ELSE << >>

\* the clauses a range-for over clauses() visits, from begin() to end()
visitClauses(formula) == RangeFor(formula, 1, Len(formula) + 1)

\* the formula has been iterated: the record keeps the visited clauses
Iterated == "visited" \in DOMAIN cnf_formula

\* a range-for over clauses() of the formula read so far
IterateClauses ==
    /\ ~Iterated
    /\ cnf_formula' = [formula |-> cnf_formula.formula,
                       variables |-> cnf_formula.variables,
                       last |-> cnf_formula.last,
                       calls |-> cnf_formula.calls,
                       visited |-> visitClauses(cnf_formula.formula)]
    /\ UNCHANGED varsWL
    /\ UNCHANGED varsGate
    /\ UNCHANGED cmb

NextIterate == ReadClause \/ IterateClauses

SpecIterate == InitRead /\ [][NextIterate]_vars

\* C29  A range-for over clauses() visits every stored clause exactly once
\* and then stops: the loop body runs once per stored clause, for formulas
\* with zero, one or many clauses.
RangeForVisitsEveryClause ==
    Iterated => cnf_formula.visited = cnf_formula.formula

(***************************************************************************)
(* operator (): run() and the measurements appended to its result.         *)
(***************************************************************************)
\* twice the value of iteration_count in operator (), which is a double:
\* iteration, or depth / 2. when iteration * 2 >= depth
iteration_count_doubled(h) ==
    IF h.iteration * 2 >= h.cfg.depth THEN h.cfg.depth ELSE 2 * h.iteration

\* operator () after run() has returned: the session with the measurement
measure(h, return_measurements) ==
    [pc |-> "reported", cfg |-> h.cfg, cnf |-> h.cnf, nVars |-> h.nVars,
     color_functions |-> h.color_functions, iteration |-> h.iteration,
     previous_unique_hashes |-> h.previous_unique_hashes, ret |-> h.ret,
     result |-> h.result,
     return_measurements |-> return_measurements,
     iteration_count_doubled |->
        IF return_measurements THEN iteration_count_doubled(h) ELSE 0]

\* operator () builds its result string from the value run() returned
Report ==
    /\ wl[1].pc = "done"
    /\ \E return_measurements \in BOOLEAN :
          wl' = [wl EXCEPT ![1] = measure(wl[1], return_measurements)]
    /\ UNCHANGED << input, twin, cmb, cnf_formula >>
    /\ UNCHANGED varsGate

NextReport == RunLoop(1) \/ RunReturn(1) \/ Report

SpecReport == InitRun /\ [][NextReport]_vars

\* C30  When measurements are returned, the reported iteration count is the
\* number of iterations that were calculated, counting a half iteration for
\* the final CNF hash: the number of executed steps after an early
\* convergence, and depth / 2 (a half-integer for odd depth) when the
\* budget is exhausted.
ReportedIterationCount ==
    (wl[1].pc = "reported" /\ wl[1].return_measurements) =>
        wl[1].iteration_count_doubled =
            IF wl[1].ret = "progress" THEN 2 * wl[1].iteration
                                      ELSE wl[1].cfg.depth

\* the same statement for even depths alone
ReportedIterationCountEven ==
    (wl[1].pc = "reported" /\ wl[1].return_measurements
        /\ wl[1].cfg.depth % 2 = 0) =>
        wl[1].iteration_count_doubled =
            IF wl[1].ret = "progress" THEN 2 * wl[1].iteration
                                      ELSE wl[1].cfg.depth
=============================================================================
